---- MODULE Spec2Model ----
(***************************************************************************)
(* Pywalfox background script (class Extension, src/README.md 135-532).    *)
(*                                                                         *)
(* The extension keeps one State object, talks to the browser theme API,   *)
(* to its two extension pages, to the DuckDuckGo content script, to the    *)
(* settings UI and to the native daemon.  Every handler is modelled as an  *)
(* operator on a "world" record w that holds the State object and the      *)
(* things the handler can touch; it returns the world after the handler.   *)
(* w.out is the ordered list of calls the handler made to the outside.     *)
(***************************************************************************)
EXTENDS Integers, Sequences, FiniteSets, TLC

VARIABLES
  state,        \* the State object (this.state), persisted across restarts
  browserTheme, \* what browser.theme currently holds
  pending,      \* requests sent to the native daemon and not yet answered
  suspended,    \* setThemeMode calls waiting at their await
  phase,        \* "loading": start() waits for state.load(); "running"
  out,          \* calls made to the outside by the last handler, in order
  last,         \* the last handler that ran and its argument
  settingsPage  \* the settings page: its dialogs, its overlay, its setting cards

vars == <<state, browserTheme, pending, suspended, phase, out, last, settingsPage>>

(***************************************************************************)
(* Bounds of the model.                                                    *)
(***************************************************************************)
MaxPending == 2     \* daemon requests in flight
MaxSuspended == 1   \* setThemeMode calls suspended at their await

\* Colours are opaque values to the extension (it copies and compares them):
\* two of them tell a colour from another; 0 stands for "no colour".
Colors == {1, 2}

(***************************************************************************)
(* Data shapes.  null is a value of the same shape with nothing in it, so  *)
(* that TLC can compare it with the non-null values.                       *)
(***************************************************************************)
\* IPalette: the targets of a palette
Targets == {"background", "text"}
\* IBrowserTheme: the keys of the browser theme
BrowserKeys == {"frame", "toolbar_text"}
\* ThemeModes
ThemeModes == {"dark", "light", "auto"}
\* CSSTargets
CSSTargets == {"userChrome", "userContent"}
CSSTargets_UserChrome == "userChrome"

\* IPywalColors: the places of a raw pywal palette as the daemon sends it
\* (the real palette has sixteen; with the derived colour, one is enough to
\* tell two templates apart)
RawIndices == {1}
RawPalettes == [RawIndices -> Colors]
\* an extended palette has one derived colour more
ExtIndices == RawIndices \cup {Cardinality(RawIndices) + 1}

NullColors == <<>>
NullTheme == [k \in {"background", "text"} |-> 0]
NullBrowserTheme == [k \in BrowserKeys |-> 0]
NullPalette == [t \in Targets |-> 0]
NullColorscheme ==
  [hash |-> 0, palette |-> NullPalette, browser |-> NullBrowserTheme,
   duckduckgo |-> NullTheme, extension |-> NullTheme]
\* Partial<IPalette>: null, undefined (an argument left out), or an object
\* whose map gives each key its colour, 0 marking a key the object lacks
NoKeys == [t \in Targets |-> 0]
NullCustomColors == [kind |-> "null", map |-> NoKeys]
UndefinedCustomColors == [kind |-> "undefined", map |-> NoKeys]
CustomColorsObject(map) == [kind |-> "object", map |-> map]
\* JavaScript truthiness of a Partial<IPalette> value: every object is truthy
Truthy(customColors) == customColors.kind = "object"
NullPaletteTemplate == [t \in Targets |-> 0]
NullThemeTemplate == [k \in BrowserKeys |-> ""]

\* DEFAULT_CSS_FONT_SIZE (config/general)
DEFAULT_CSS_FONT_SIZE == 13
\* DEFAULT_THEME_DARK, DEFAULT_THEME_LIGHT (config/default-themes)
DEFAULT_THEME_DARK ==
  [palette |-> [background |-> 1, text |-> 2],
   browser |-> [frame |-> "background", toolbar_text |-> "text"]]
DEFAULT_THEME_LIGHT ==
  [palette |-> [background |-> 2, text |-> 1],
   browser |-> [frame |-> "text", toolbar_text |-> "text"]]

(***************************************************************************)
(* Version numbers.  The daemon sends its version as a string, here a      *)
(* sequence of characters; parseFloat makes a number of it.  A number is   *)
(* num / 10^scale with no trailing zero in its fraction, or NaN.           *)
(***************************************************************************)
Float(num, scale) == [nan |-> FALSE, num |-> num, scale |-> scale]
NaN == [nan |-> TRUE, num |-> 0, scale |-> 0]

DigitChars == <<"0", "1", "2", "3", "4", "5", "6", "7", "8", "9">>
IsDigit(c) == \E i \in 1..Len(DigitChars) : DigitChars[i] = c
DigitValue(c) == (CHOOSE i \in 1..Len(DigitChars) : DigitChars[i] = c) - 1

RECURSIVE DigitsLen(_)
\* the length of the longest prefix of s made of digits
DigitsLen(s) ==
  IF s = <<>> \/ ~IsDigit(Head(s)) THEN 0 ELSE 1 + DigitsLen(Tail(s))

RECURSIVE DigitsValue(_)
\* the number a sequence of digits writes
DigitsValue(s) ==
  IF s = <<>> THEN 0
  ELSE DigitsValue(SubSeq(s, 1, Len(s) - 1)) * Len(DigitChars) + DigitValue(s[Len(s)])

RECURSIVE Normalize(_, _)
\* 2.10 is the number 2.1
Normalize(num, scale) ==
  IF scale > 0 /\ num % Len(DigitChars) = 0
    THEN Normalize(num \div Len(DigitChars), scale - 1)
    ELSE Float(num, scale)

RECURSIVE Pow10(_)
Pow10(n) == IF n = 0 THEN 1 ELSE Len(DigitChars) * Pow10(n - 1)

\* parseFloat: the longest prefix of the string that is a decimal literal
\* (digits, then optionally a point and digits); NaN when there is none.
\* Signs, exponents and leading blanks do not occur in the strings modelled.
parseFloat(s) ==
  LET i == DigitsLen(s)
      rest == SubSeq(s, i + 1, Len(s))
      f == IF rest # <<>> /\ Head(rest) = "." THEN DigitsLen(Tail(rest)) ELSE 0
      digits == SubSeq(s, 1, i) \o (IF f > 0 THEN SubSeq(rest, 2, f + 1) ELSE <<>>)
  IN IF i + f = 0 THEN NaN ELSE Normalize(DigitsValue(digits), f)

\* a < b on numbers: false when either is NaN
LessThan(a, b) ==
  /\ ~a.nan
  /\ ~b.nan
  /\ a.num * Pow10(b.scale) < b.num * Pow10(a.scale)

\* MIN_REQUIRED_DAEMON_VERSION (config/general): 2.7
MIN_REQUIRED_DAEMON_VERSION == Float(27, 1)

(***************************************************************************)
(* ./colorscheme                                                            *)
(***************************************************************************)
\* extendPywalColors: the raw colours plus a colour derived from them
extendPywalColors(pywalColors) ==
  [i \in ExtIndices |->
     IF i \in RawIndices THEN pywalColors[i]
     ELSE CHOOSE c \in Colors : c # pywalColors[1]]

generateBrowserTheme(palette, themeTemplate) ==
  [k \in BrowserKeys |-> palette[themeTemplate[k]]]

generateExtensionTheme(palette) ==
  [background |-> palette["background"], text |-> palette["text"]]

generateDDGTheme(palette) ==
  [background |-> palette["text"], text |-> palette["background"]]

createPaletteHash(palette) ==
  palette["background"] * (Cardinality(Colors) + 1) + palette["text"]

\* generateColorscheme: the palette is the template's pywal colours with the
\* custom colours laid over them
generateColorscheme(pywalColors, customColors, template) ==
  LET palette == [t \in Targets |->
                    IF Truthy(customColors) /\ customColors.map[t] # 0
                      THEN customColors.map[t]
                      ELSE pywalColors[template.palette[t]]]
  IN [hash |-> createPaletteHash(palette),
      palette |-> palette,
      browser |-> generateBrowserTheme(palette, template.browser),
      duckduckgo |-> generateDDGTheme(palette),
      extension |-> generateExtensionTheme(palette)]

(***************************************************************************)
(* ./state: the State object                                                *)
(***************************************************************************)
InitialState ==
  [version |-> Float(0, 0),
   connected |-> FALSE,
   updateMuted |-> FALSE,
   mode |-> "dark",
   isDay |-> FALSE,
   isApplied |-> FALSE,
   pywalColors |-> NullColors,
   colorscheme |-> NullColorscheme,
   customColors |-> NullCustomColors,
   templates |-> [m \in {"dark", "light"} |->
                    IF m = "dark" THEN DEFAULT_THEME_DARK ELSE DEFAULT_THEME_LIGHT],
   cssEnabled |-> [t \in CSSTargets |-> FALSE],
   fontSize |-> DEFAULT_CSS_FONT_SIZE,
   duckduckgo |-> FALSE]

getThemeMode(w) == w.state.mode
getTemplateThemeMode(w) ==
  IF w.state.mode = "auto"
    THEN (IF w.state.isDay THEN "light" ELSE "dark")
    ELSE w.state.mode
getTemplate(w) == w.state.templates[getTemplateThemeMode(w)]
getPywalColors(w) == w.state.pywalColors
getCustomColors(w) == w.state.customColors
getColorscheme(w) == w.state.colorscheme
getPalette(w) ==
  IF w.state.colorscheme = NullColorscheme THEN NullPalette
  ELSE w.state.colorscheme.palette
getDDGThemeEnabled(w) == w.state.duckduckgo
getCssEnabled(w, target) == w.state.cssEnabled[target]
getCssFontSize(w) == w.state.fontSize
getUpdateMuted(w) == w.state.updateMuted
getVersion(w) == w.state.version

\* every call to the outside, and every write of the State object, is
\* recorded in w.out, in the order the handler makes them
Emit(w, op, arg) == [w EXCEPT !.out = Append(@, [op |-> op, arg |-> arg])]

setColors(w, pywalColors, colorscheme) ==
  Emit([w EXCEPT !.state.pywalColors = pywalColors, !.state.colorscheme = colorscheme],
       "state.setColors", [pywalColors |-> pywalColors, colorscheme |-> colorscheme])
setCustomColors(w, customColors) ==
  Emit([w EXCEPT !.state.customColors = customColors], "state.setCustomColors", customColors)
setApplied(w, isApplied) ==
  Emit([w EXCEPT !.state.isApplied = isApplied], "state.setApplied", isApplied)
setBrowserThemeInState(w, browserTheme_) ==
  Emit([w EXCEPT !.state.colorscheme.browser = browserTheme_],
       "state.setBrowserTheme", browserTheme_)
setStateThemeMode(w, mode) ==
  Emit([w EXCEPT !.state.mode = mode], "state.setThemeMode", mode)
setStatePaletteTemplate(w, template) ==
  Emit([w EXCEPT !.state.templates[getTemplateThemeMode(w)].palette = template],
       "state.setPaletteTemplate", template)
setStateThemeTemplate(w, template) ==
  Emit([w EXCEPT !.state.templates[getTemplateThemeMode(w)].browser = template],
       "state.setThemeTemplate", template)
setDDGThemeEnabled(w, enabled) ==
  Emit([w EXCEPT !.state.duckduckgo = enabled], "state.setDDGThemeEnabled", enabled)
setCssEnabled(w, target, enabled) ==
  Emit([w EXCEPT !.state.cssEnabled[target] = enabled],
       "state.setCssEnabled", [target |-> target, enabled |-> enabled])
setStateCssFontSize(w, size) ==
  Emit([w EXCEPT !.state.fontSize = size], "state.setCssFontSize", size)
setVersion(w, version) ==
  Emit([w EXCEPT !.state.version = version], "state.setVersion", version)
setUpdateMuted(w, muted) ==
  Emit([w EXCEPT !.state.updateMuted = muted], "state.setUpdateMuted", muted)
setConnected(w, connected) ==
  Emit([w EXCEPT !.state.connected = connected], "state.setConnected", connected)

(***************************************************************************)
(* Calls to the outside.                                                    *)
(***************************************************************************)
\* browser.theme
browser_theme_reset(w) ==
  Emit([w EXCEPT !.browserTheme = [call |-> "reset", colors |-> NullBrowserTheme]],
       "browser.theme.reset", NullBrowserTheme)
browser_theme_update(w, colors) ==
  Emit([w EXCEPT !.browserTheme = [call |-> "update", colors |-> colors]],
       "browser.theme.update", colors)

\* ../communication/duckduckgo
DDG_resetTheme(w) == Emit(w, "DDG.resetTheme", 0)
DDG_setTheme(w, hash, theme) == Emit(w, "DDG.setTheme", [hash |-> hash, theme |-> theme])

\* ../communication/ui
UI_sendDebuggingOutput(w, message) == Emit(w, "UI.sendDebuggingOutput", message)
UI_sendPywalColors(w, colors) == Emit(w, "UI.sendPywalColors", colors)
UI_sendOption(w, option, value) ==
  Emit(w, "UI.sendOption", [option |-> option, value |-> value])
UI_sendNotification(w, title, error) ==
  Emit(w, "UI.sendNotification", [title |-> title, error |-> error])
UI_sendFontSize(w, size) == Emit(w, "UI.sendFontSize", size)
UI_sendCustomColors(w, customColors) == Emit(w, "UI.sendCustomColors", customColors)
UI_sendPaletteTemplate(w, template) == Emit(w, "UI.sendPaletteTemplate", template)
UI_sendThemeTemplate(w, template) == Emit(w, "UI.sendThemeTemplate", template)
UI_sendThemeMode(w, mode) == Emit(w, "UI.sendThemeMode", mode)
UI_sendDebuggingInfo(w, connected, version) ==
  Emit(w, "UI.sendDebuggingInfo", [connected |-> connected, version |-> version])

\* ./extension-page
page_setTheme(w, page, extensionTheme) == Emit(w, page \o ".setTheme", extensionTheme)
page_open(w, page) == Emit(w, page \o ".open", 0)
page_close(w, page) == Emit(w, page \o ".close", 0)

\* console
console_log(w, message) == Emit(w, "console.log", message)

\* ./native-app: a request is written to the daemon's port
Request(w, req) == [w EXCEPT !.pending = Append(@, req)]
requestColorscheme(w) ==
  Request(Emit(w, "nativeApp.requestColorscheme", 0),
          [type |-> "colorscheme", target |-> "", enabled |-> FALSE, size |-> 0])
requestCssEnabled(w, target, enabled) ==
  Request(Emit(w, "nativeApp.requestCssEnabled", [target |-> target, enabled |-> enabled]),
          [type |-> "css", target |-> target, enabled |-> enabled, size |-> 0])
requestFontSizeSet(w, target, size) ==
  Request(Emit(w, "nativeApp.requestFontSizeSet", [target |-> target, size |-> size]),
          [type |-> "font", target |-> target, enabled |-> FALSE, size |-> size])
nativeApp_connect(w) == Emit(w, "nativeApp.connect", 0)

(***************************************************************************)
(* Arguments.  An IOptionSetData object carries option, enabled and value; *)
(* a field the sender left out is undefined.                               *)
(***************************************************************************)
UndefinedValue == [defined |-> FALSE, n |-> 0]
Number(n) == [defined |-> TRUE, n |-> n]
OptionData(option, enabled, value) ==
  [kind |-> "object", option |-> option, enabled |-> enabled, value |-> value]
\* a bare number passed where an object is expected
NumberArg(n) == [kind |-> "number", option |-> "", enabled |-> FALSE, value |-> Number(n)]
\* the destructuring pattern { value }: the property "value" of the argument;
\* a number has no such property
Destructure_value(arg) == IF arg.kind = "object" THEN arg.value ELSE UndefinedValue

(***************************************************************************)
(* class Extension                                                          *)
(***************************************************************************)
\* a getDefaultTemplate that goes by the mode of the template in use
getDefaultTemplate_byTemplateMode(w) ==
  IF getTemplateThemeMode(w) = "dark" THEN DEFAULT_THEME_DARK ELSE DEFAULT_THEME_LIGHT

getDefaultTemplate(w) ==
  IF getThemeMode(w) = "dark" THEN DEFAULT_THEME_DARK ELSE DEFAULT_THEME_LIGHT

updateExtensionPagesTheme(w, extensionTheme) ==
  LET w1 == page_setTheme(w, "settingsPage", extensionTheme)
  IN page_setTheme(w1, "updatePage", extensionTheme)

\* a resetThemes that leaves the applied flag set
resetThemes_staysApplied(w) ==
  LET w1 == browser_theme_reset(w)
      w2 == updateExtensionPagesTheme(w1, NullTheme)
      w3 == IF getDDGThemeEnabled(w2) THEN DDG_resetTheme(w2) ELSE w2
      w4 == setColors(w3, NullColors, NullColorscheme)
      w5 == setCustomColors(w4, NullCustomColors)
  IN UI_sendDebuggingOutput(w5, "Theme was disabled")

\* a resetThemes that leaves colours and colorscheme in the State
resetThemes_keepsColors(w) ==
  LET w1 == browser_theme_reset(w)
      w2 == updateExtensionPagesTheme(w1, NullTheme)
      w3 == IF getDDGThemeEnabled(w2) THEN DDG_resetTheme(w2) ELSE w2
      w5 == setCustomColors(w3, NullCustomColors)
      w6 == setApplied(w5, FALSE)
  IN UI_sendDebuggingOutput(w6, "Theme was disabled")

\* a resetThemes that forgets the custom colours
resetThemes_keepsCustomColors(w) ==
  LET w1 == browser_theme_reset(w)
      w2 == updateExtensionPagesTheme(w1, NullTheme)
      w3 == IF getDDGThemeEnabled(w2) THEN DDG_resetTheme(w2) ELSE w2
      w4 == setColors(w3, NullColors, NullColorscheme)
      w6 == setApplied(w4, FALSE)
  IN UI_sendDebuggingOutput(w6, "Theme was disabled")

resetThemes(w) ==
  LET w1 == browser_theme_reset(w)
      w2 == updateExtensionPagesTheme(w1, NullTheme)
      w3 == IF getDDGThemeEnabled(w2) THEN DDG_resetTheme(w2) ELSE w2
      w4 == setColors(w3, NullColors, NullColorscheme)
      w5 == setCustomColors(w4, NullCustomColors)
      w6 == setApplied(w5, FALSE)
  IN UI_sendDebuggingOutput(w6, "Theme was disabled")

setBrowserTheme(w, browserTheme_) == browser_theme_update(w, browserTheme_)

\* an updateThemes that takes the default dark template, not the state's
updateThemes_darkTemplate(w, pywalColors, customColors) ==
  LET template == DEFAULT_THEME_DARK
      colorscheme == generateColorscheme(pywalColors, customColors, template)
      w1 == setBrowserTheme(w, colorscheme.browser)
      w2 == updateExtensionPagesTheme(w1, colorscheme.extension)
      w3 == IF getDDGThemeEnabled(w2)
              THEN DDG_setTheme(w2, colorscheme.hash, colorscheme.duckduckgo)
              ELSE w2
      w4 == setColors(w3, pywalColors, colorscheme)
      w5 == setCustomColors(w4, IF Truthy(customColors) THEN customColors
                                ELSE NullCustomColors)
  IN setApplied(w5, TRUE)

updateThemes(w, pywalColors, customColors) ==
  LET template == getTemplate(w)
      colorscheme == generateColorscheme(pywalColors, customColors, template)
      w1 == setBrowserTheme(w, colorscheme.browser)
      w2 == updateExtensionPagesTheme(w1, colorscheme.extension)
      w3 == IF getDDGThemeEnabled(w2)
              THEN DDG_setTheme(w2, colorscheme.hash, colorscheme.duckduckgo)
              ELSE w2
      w4 == setColors(w3, pywalColors, colorscheme)
      w5 == setCustomColors(w4, IF Truthy(customColors) THEN customColors
                                ELSE NullCustomColors)
  IN setApplied(w5, TRUE)

\* a loop that deletes nothing
DeleteTemplateColors_keepsAll(pywalColors, customColors, template) == customColors

\* delete customColors[color] for every key whose colour is the pywal colour
\* the template maps the key to (for ... in over null visits nothing)
DeleteTemplateColors(pywalColors, customColors, template) ==
  IF ~Truthy(customColors) THEN customColors
  ELSE CustomColorsObject(
         [t \in Targets |->
            IF customColors.map[t] # 0 /\ pywalColors[template[t]] = customColors.map[t]
              THEN 0 ELSE customColors.map[t]])

applyUpdatedPaletteTemplate(w, template) ==
  LET pywalColors == getPywalColors(w)
      customColors == getCustomColors(w)
  IN IF pywalColors = NullColors THEN w
     ELSE LET kept == DeleteTemplateColors(pywalColors, customColors, template)
              w1 == updateThemes(w, pywalColors, kept)
          IN UI_sendCustomColors(w1, kept)

applyDuckDuckGoTheme(w) ==
  LET colorscheme == getColorscheme(w)
  IN IF colorscheme # NullColorscheme
       THEN DDG_setTheme(w, colorscheme.hash, colorscheme.duckduckgo)
       ELSE w

\* a setDDGEnabled that does not compare with the stored flag
setDDGEnabled_everyTime(w, optionData) ==
  LET enabled == optionData.enabled
      w1 == IF enabled THEN applyDuckDuckGoTheme(w) ELSE DDG_resetTheme(w)
      w2 == UI_sendOption(w1, optionData.option, enabled)
  IN setDDGThemeEnabled(w2, enabled)

setDDGEnabled(w, optionData) ==
  LET isEnabled == getDDGThemeEnabled(w)
      enabled == optionData.enabled
      w1 == IF enabled /\ ~isEnabled THEN applyDuckDuckGoTheme(w)
            ELSE IF ~enabled /\ isEnabled THEN DDG_resetTheme(w)
            ELSE w
      w2 == UI_sendOption(w1, optionData.option, enabled)
  IN setDDGThemeEnabled(w2, enabled)

\* a setDDGTheme that does not look at the option
setDDGTheme_ignoresOption(w) == applyDuckDuckGoTheme(w)

setDDGTheme(w) ==
  IF getDDGThemeEnabled(w) THEN applyDuckDuckGoTheme(w) ELSE DDG_resetTheme(w)

\* a setCustomCSSEnabled that sends the request for any option name
setCustomCSSEnabled_anyOption(w, optionData) ==
  requestCssEnabled(w, optionData.option, optionData.enabled)

setCustomCSSEnabled(w, optionData) ==
  IF optionData.option \in CSSTargets
    THEN requestCssEnabled(w, optionData.option, optionData.enabled)
    ELSE LET w1 == UI_sendNotification(w, "Custom CSS", TRUE)
         IN UI_sendOption(w1, optionData.option, ~optionData.enabled)

\* a setCssFontSize whose lower limit is exclusive
setCssFontSize_exclusiveMin(w, arg) ==
  LET value == Destructure_value(arg)
  IN IF value.defined /\ value.n > 10 /\ value.n <= 20
       THEN requestFontSizeSet(w, CSSTargets_UserChrome, value.n)
       ELSE UI_sendNotification(w, "Font size error", TRUE)

setCssFontSize(w, arg) ==
  LET value == Destructure_value(arg)
  IN IF value.defined /\ value.n >= 10 /\ value.n <= 20
       THEN requestFontSizeSet(w, CSSTargets_UserChrome, value.n)
       ELSE UI_sendNotification(w, "Font size error", TRUE)

setSavedColorscheme(w, colorscheme) ==
  LET w1 == setBrowserTheme(w, colorscheme.browser)
      w2 == updateExtensionPagesTheme(w1, colorscheme.extension)
  IN setApplied(w2, TRUE)

\* a setThemeMode whose state write has not happened when it goes on
setThemeMode_call_noWrite(w, mode) ==
  [w EXCEPT !.suspended = Append(@, mode)]

\* setThemeMode up to its await: state.setThemeMode(mode) has written the
\* mode, the rest of the method waits to be resumed
setThemeMode_call(w, mode) ==
  LET w1 == setStateThemeMode(w, mode)
  IN [w1 EXCEPT !.suspended = Append(@, mode)]

\* setThemeMode after its await
setThemeMode_resume(w, mode) ==
  LET pywalColors == getPywalColors(w)
      template == getTemplate(w)
      customColors == getCustomColors(w)
      w1 == IF pywalColors # NullColors
              THEN updateThemes(w, pywalColors, customColors) ELSE w
      w2 == IF mode = "auto" THEN UI_sendThemeMode(w1, getTemplateThemeMode(w1)) ELSE w1
      w3 == UI_sendPaletteTemplate(w2, template.palette)
      w4 == UI_sendThemeTemplate(w3, template.browser)
  IN UI_sendCustomColors(w4, customColors)

setPaletteTemplate(w, template) ==
  LET updatedTemplate == IF template = NullPaletteTemplate
                           THEN getDefaultTemplate(w).palette ELSE template
      w1 == setStatePaletteTemplate(w, updatedTemplate)
      w2 == applyUpdatedPaletteTemplate(w1, updatedTemplate)
      w3 == UI_sendPaletteTemplate(w2, updatedTemplate)
  IN UI_sendNotification(w3, "Palette template", FALSE)

\* a setThemeTemplate that stores the browser theme and does not apply it
setThemeTemplate_notApplied(w, template) ==
  LET palette == getPalette(w)
      updatedTemplate == IF template = NullThemeTemplate
                           THEN getDefaultTemplate(w).browser ELSE template
      w1 == IF palette # NullPalette
              THEN setBrowserThemeInState(w, generateBrowserTheme(palette, updatedTemplate))
              ELSE w
      w2 == setStateThemeTemplate(w1, updatedTemplate)
      w3 == UI_sendThemeTemplate(w2, updatedTemplate)
  IN UI_sendNotification(w3, "Theme template", FALSE)

\* a setThemeTemplate that applies the browser theme and does not store it
setThemeTemplate_notStored(w, template) ==
  LET palette == getPalette(w)
      updatedTemplate == IF template = NullThemeTemplate
                           THEN getDefaultTemplate(w).browser ELSE template
      w1 == IF palette # NullPalette
              THEN setBrowserTheme(w, generateBrowserTheme(palette, updatedTemplate))
              ELSE w
      w2 == setStateThemeTemplate(w1, updatedTemplate)
      w3 == UI_sendThemeTemplate(w2, updatedTemplate)
  IN UI_sendNotification(w3, "Theme template", FALSE)

setThemeTemplate(w, template) ==
  LET palette == getPalette(w)
      updatedTemplate == IF template = NullThemeTemplate
                           THEN getDefaultTemplate(w).browser ELSE template
      w1 == IF palette # NullPalette
              THEN LET browserTheme_ == generateBrowserTheme(palette, updatedTemplate)
                   IN setBrowserThemeInState(setBrowserTheme(w, browserTheme_), browserTheme_)
              ELSE w
      w2 == setStateThemeTemplate(w1, updatedTemplate)
      w3 == UI_sendThemeTemplate(w2, updatedTemplate)
  IN UI_sendNotification(w3, "Theme template", FALSE)

\* an updateNeeded that does not ask whether the user has muted it
updateNeeded_ignoresMuted(w) == page_open(w, "updatePage")

updateNeeded(w) ==
  IF getUpdateMuted(w)
    THEN console_log(w, "Update is required, but user has muted update notifications")
    ELSE page_open(w, "updatePage")

validateVersion(w, version) ==
  LET versionNumber == parseFloat(version)
      w1 == IF LessThan(versionNumber, MIN_REQUIRED_DAEMON_VERSION)
              THEN updateNeeded(w) ELSE w
  IN setVersion(w1, versionNumber)

nativeAppConnected(w) == setConnected(w, TRUE)

nativeAppDisconnected(w) ==
  LET w1 == UI_sendDebuggingOutput(w, "Disconnected from native app")
      w2 == UI_sendDebuggingInfo(w1, FALSE, getVersion(w1))
  IN setConnected(w2, FALSE)

\* a createCustomColorPalette that forgets the colours set earlier
createCustomColorPalette_dataOnly(w, data) == data

\* Object.assign(currentColors, data): data's keys laid over the current ones
createCustomColorPalette(w, data) ==
  LET currentColors == getCustomColors(w)
  IN IF currentColors = NullCustomColors THEN data
     ELSE CustomColorsObject(
            [t \in Targets |-> IF data.map[t] # 0 THEN data.map[t]
                               ELSE currentColors.map[t]])

setPaletteColor(w, palette) ==
  LET pywalColors == getPywalColors(w)
  IN IF pywalColors # NullColors
       THEN updateThemes(w, pywalColors, createCustomColorPalette(w, palette))
       ELSE w

\* an onPywalColorsReceived that passes the stored custom colours on
onPywalColorsReceived_keepsCustomColors(w, pywalColors) ==
  LET colors == extendPywalColors(pywalColors)
      w1 == UI_sendDebuggingOutput(w,
              "Pywal colors was fetched from daemon and applied successfully")
      w2 == UI_sendPywalColors(w1, colors)
  IN updateThemes(w2, colors, getCustomColors(w))

onPywalColorsReceived(w, pywalColors) ==
  LET colors == extendPywalColors(pywalColors)
      w1 == UI_sendDebuggingOutput(w,
              "Pywal colors was fetched from daemon and applied successfully")
      w2 == UI_sendPywalColors(w1, colors)
  IN updateThemes(w2, colors, UndefinedCustomColors)

cssToggleSuccess(w, target) ==
  LET newState == IF getCssEnabled(w, target) THEN FALSE ELSE TRUE
      fontSize == getCssFontSize(w)
      w1 == IF newState = TRUE
              THEN IF target = CSSTargets_UserChrome
                     THEN IF fontSize # DEFAULT_CSS_FONT_SIZE
                            THEN setCssFontSize(w, NumberArg(fontSize))
                            ELSE w
                     ELSE w
              ELSE w
      w2 == UI_sendOption(w1, target, newState)
      w3 == UI_sendNotification(w2, "Restart needed", FALSE)
  IN setCssEnabled(w3, target, newState)

\* a cssToggleFailed that stores the value it sends back
cssToggleFailed_storesFlag(w, target) ==
  LET currentState == ~getCssEnabled(w, target)
      w1 == UI_sendOption(w, target, currentState)
      w2 == UI_sendNotification(w1, "Custom CSS", FALSE)
  IN setCssEnabled(w2, target, currentState)

cssToggleFailed(w, target) ==
  LET currentState == getCssEnabled(w, target)
      w1 == UI_sendOption(w, target, currentState)
  IN UI_sendNotification(w1, "Custom CSS", FALSE)

cssFontSizeSetSuccess(w, size) ==
  LET w1 == UI_sendNotification(w, "Restart needed", FALSE)
      w2 == UI_sendFontSize(w1, size)
  IN setStateCssFontSize(w2, size)

cssFontSizeSetFailed(w) == UI_sendNotification(w, "Font size", FALSE)

\* a start that connects before it applies the saved colorscheme
start_connectsFirst(w) ==
  LET savedColorscheme == getColorscheme(w)
      w1 == nativeApp_connect(w)
  IN IF savedColorscheme # NullColorscheme
       THEN setSavedColorscheme(w1, savedColorscheme) ELSE w1

\* start() after its await of state.load()
start(w) ==
  LET savedColorscheme == getColorscheme(w)
      w1 == IF savedColorscheme # NullColorscheme
              THEN setSavedColorscheme(w, savedColorscheme) ELSE w
  IN nativeApp_connect(w1)

\* EXTENSION_OPTIONS (config/general)
EXTENSION_OPTIONS ==
  [FONT_SIZE |-> "font_size", DUCKDUCKGO |-> "duckduckgo",
   USER_CHROME |-> "userChrome", USER_CONTENT |-> "userContent"]

setOption(w, optionData) ==
  CASE optionData.option = EXTENSION_OPTIONS.FONT_SIZE -> setCssFontSize(w, optionData)
    [] optionData.option = EXTENSION_OPTIONS.DUCKDUCKGO -> setDDGEnabled(w, optionData)
    [] optionData.option \in {EXTENSION_OPTIONS.USER_CHROME, EXTENSION_OPTIONS.USER_CONTENT}
         -> setCustomCSSEnabled(w, optionData)
    [] OTHER -> UI_sendDebuggingOutput(w, "Received unhandled option")

\* an onMessage whose THEME_FETCH case lacks its break and falls through
\* to THEME_DISABLE
onMessage_fetchFallsThrough(w, action, data) ==
  CASE action = "DDG_THEME_GET" -> setDDGTheme(w)
    [] action = "PALETTE_TEMPLATE_SET" -> setPaletteTemplate(w, data)
    [] action = "THEME_TEMPLATE_SET" -> setThemeTemplate(w, data)
    [] action = "THEME_MODE_SET" -> setThemeMode_call(w, data)
    [] action = "THEME_FETCH" -> resetThemes(requestColorscheme(w))
    [] action = "THEME_DISABLE" -> resetThemes(w)
    [] action = "PALETTE_COLOR_SET" -> setPaletteColor(w, data)
    [] action = "OPTION_SET" -> setOption(w, data)
    [] action = "UPDATE_PAGE_MUTE" -> page_close(setUpdateMuted(w, TRUE), "updatePage")
    [] OTHER -> w

\* onMessage: the messages of the UI and of the content scripts
onMessage(w, action, data) ==
  CASE action = "DDG_THEME_GET" -> setDDGTheme(w)
    [] action = "PALETTE_TEMPLATE_SET" -> setPaletteTemplate(w, data)
    [] action = "THEME_TEMPLATE_SET" -> setThemeTemplate(w, data)
    [] action = "THEME_MODE_SET" -> setThemeMode_call(w, data)
    [] action = "THEME_FETCH" -> requestColorscheme(w)
    [] action = "THEME_DISABLE" -> resetThemes(w)
    [] action = "PALETTE_COLOR_SET" -> setPaletteColor(w, data)
    [] action = "OPTION_SET" -> setOption(w, data)
    [] action = "UPDATE_PAGE_MUTE" -> page_close(setUpdateMuted(w, TRUE), "updatePage")
    [] OTHER -> w

(***************************************************************************)
(* The settings page (src/README.md 534-663, src/src/ui/settings.ts).      *)
(*                                                                         *)
(* The page script keeps currentDialog, two dialogs, the overlay element   *)
(* and the setting cards.  Its handlers are operators on a page record p.  *)
(* The classes Dialog, Colorpicker and Themepicker and the helpers of      *)
(* ./utils are imported by the script from files that are not part of the  *)
(* source tree; they are modelled by what the script relies on: a dialog   *)
(* is open or closed and remembers the element it was opened from, an      *)
(* element is open or closed.                                              *)
(***************************************************************************)
colorpicker == "colorpicker"
themepicker == "themepicker"
Dialogs == {colorpicker, themepicker}
NullDialog == "null"

themeButton == "theme-select"
colorButtons == {"button-background", "button-text"}
NullElement == "null"

\* the elements of class setting-card-header and the card each one sits in
settingCardHeaders == {"header-1", "header-2"}
Cards == {"card-1", "card-2"}
parentNode == [h \in settingCardHeaders |->
                 IF h = "header-1" THEN "card-1" ELSE "card-2"]

\* an attribute of an element: absent, or present with a string value
NoAttribute == [present |-> FALSE, value |-> ""]
Attribute(v) == [present |-> TRUE, value |-> v]

\* the page once its script has run: no dialog is current, the overlay is
\* closed, the cards are as the markup has them
LoadedPage(cards) ==
  [currentDialog |-> NullDialog,
   dialogs |-> [d \in Dialogs |-> [open |-> FALSE, target |-> NullElement]],
   overlay |-> FALSE,
   cards |-> cards]

\* Dialog.open(target), Dialog.close(), Dialog.getTarget()
Dialog_open(p, dialog, target) ==
  [p EXCEPT !.dialogs[dialog] = [open |-> TRUE, target |-> target]]

Dialog_close(p, dialog) ==
  [p EXCEPT !.dialogs[dialog].open = FALSE]

Dialog_getTarget(p, dialog) == p.dialogs[dialog].target

\* isOpen(overlay), open(overlay), close(overlay)
isOpen(p) == p.overlay
open(p) == [p EXCEPT !.overlay = TRUE]
close(p) == [p EXCEPT !.overlay = FALSE]

closeDialog(p) ==
  LET p1 == IF p.currentDialog # NullDialog
              THEN [Dialog_close(p, p.currentDialog) EXCEPT !.currentDialog = NullDialog]
              ELSE p
  IN IF isOpen(p1) THEN close(p1) ELSE p1

\* an openDialog that leaves the dialog that was current open
openDialog_keepsOther(p, dialog, target) ==
  LET overlayOpen == isOpen(p)
      p1 == IF ~overlayOpen THEN open(p) ELSE p
  IN IF p1.currentDialog = dialog
          /\ (dialog # colorpicker \/ Dialog_getTarget(p1, p1.currentDialog) = target)
       THEN closeDialog(p1)
       ELSE [Dialog_open(p1, dialog, target) EXCEPT !.currentDialog = dialog]

openDialog(p, dialog, target) ==
  LET overlayOpen == isOpen(p)
      p1 == IF ~overlayOpen THEN open(p) ELSE p
  IN IF p1.currentDialog = dialog
       THEN IF dialog # colorpicker \/ Dialog_getTarget(p1, p1.currentDialog) = target
              THEN closeDialog(p1)
              ELSE [Dialog_open(p1, dialog, target) EXCEPT !.currentDialog = dialog]
       ELSE LET p2 == IF p1.currentDialog # NullDialog /\ p1.currentDialog # dialog
                        THEN Dialog_close(p1, p1.currentDialog)
                        ELSE p1
            IN [Dialog_open(p2, dialog, target) EXCEPT !.currentDialog = dialog]

\* colorpicker.setSelectedColorForTarget(template), the call that follows
\* openDialog, marks a colour inside the picker; it opens and closes nothing
onColorClicked(p, element) == openDialog(p, colorpicker, element)

onOverlayClicked(p) == closeDialog(p)

onThemeClicked(p) == openDialog(p, themepicker, themeButton)

\* an onSettingCardClick that tests the attribute for truthiness
onSettingCardClick_truthyTest(p, header) ==
  LET card == parentNode[header]
      isOpenAttr == p.cards[card]
  IN IF isOpenAttr.present /\ isOpenAttr.value # ""
       THEN [p EXCEPT !.cards[card] = NoAttribute]
       ELSE [p EXCEPT !.cards[card] = Attribute("")]

\* getAttribute('open') is null when the card has no such attribute
onSettingCardClick(p, header) ==
  LET card == parentNode[header]
      isOpenAttr == p.cards[card]
  IN IF isOpenAttr = Attribute("")
       THEN [p EXCEPT !.cards[card] = NoAttribute]
       ELSE [p EXCEPT !.cards[card] = Attribute("")]

(***************************************************************************)
(* The state machine.  A handler runs to completion (or to its await) in   *)
(* one step: JavaScript runs one task at a time.  Messages and daemon      *)
(* replies are handled once start() has created the extension pages and    *)
(* called connect().  state.isDay stays as stored: onThemeChangeTrigger,   *)
(* the one method that writes it, has no caller in the class.              *)
(***************************************************************************)
World ==
  [state |-> state, browserTheme |-> browserTheme, pending |-> pending,
   suspended |-> suspended, out |-> <<>>]

Commit(w, handler, arg) ==
  /\ Len(w.pending) <= MaxPending
  /\ Len(w.suspended) <= MaxSuspended
  /\ state' = w.state
  /\ browserTheme' = w.browserTheme
  /\ pending' = w.pending
  /\ suspended' = w.suspended
  /\ out' = w.out
  /\ last' = [handler |-> handler, arg |-> arg]
  /\ settingsPage' = settingsPage

NoTheme == [call |-> "none", colors |-> NullBrowserTheme]

\* a fresh installation: the constructor has run, start() waits for state.load()
Init ==
  /\ state = InitialState
  /\ browserTheme = NoTheme
  /\ pending = <<>>
  /\ suspended = <<>>
  /\ phase = "loading"
  /\ out = <<>>
  /\ last = [handler |-> "constructor", arg |-> 0]
  /\ settingsPage = LoadedPage([c \in Cards |-> NoAttribute])

\* inputs
PaletteTemplateInputs ==
  {NullPaletteTemplate, [background |-> 1, text |-> 1]}
ThemeTemplateInputs ==
  {NullThemeTemplate, [frame |-> "text", toolbar_text |-> "background"]}
PaletteColorInputs ==
  {CustomColorsObject([NoKeys EXCEPT ![t] = c]) : t \in Targets, c \in Colors}
FontSizeInputs == {UndefinedValue, Number(9), Number(10), Number(20), Number(21)}
FontSizeOptionInputs ==
  {OptionData(EXTENSION_OPTIONS.FONT_SIZE, FALSE, v) : v \in FontSizeInputs}
DDGOptionInputs ==
  {OptionData(EXTENSION_OPTIONS.DUCKDUCKGO, e, UndefinedValue) : e \in BOOLEAN}
CssOptionInputs ==
  {OptionData(o, e, UndefinedValue) :
     o \in {EXTENSION_OPTIONS.USER_CHROME, EXTENSION_OPTIONS.USER_CONTENT, "unknown"},
     e \in BOOLEAN}

Start ==
  /\ phase = "loading"
  /\ phase' = "running"
  /\ Commit(start(World), "start", 0)

\* the browser is closed and opened again: the State object is read back
\* from storage, everything else starts afresh
Restart ==
  /\ phase = "running"
  /\ phase' = "loading"
  /\ state' = state
  /\ browserTheme' = NoTheme
  /\ pending' = <<>>
  /\ suspended' = <<>>
  /\ out' = <<>>
  /\ last' = [handler |-> "constructor", arg |-> 0]
  /\ settingsPage' = settingsPage

\* a message of the UI or of a content script reaches onMessage
Message(action, data) ==
  /\ phase' = phase
  /\ Commit(onMessage(World, action, data), action, data)

DDG_THEME_GET ==
  /\ phase = "running"
  /\ Message("DDG_THEME_GET", 0)
PALETTE_TEMPLATE_SET ==
  /\ phase = "running"
  /\ \E t \in PaletteTemplateInputs : Message("PALETTE_TEMPLATE_SET", t)
THEME_TEMPLATE_SET ==
  /\ phase = "running"
  /\ \E t \in ThemeTemplateInputs : Message("THEME_TEMPLATE_SET", t)
THEME_MODE_SET ==
  /\ phase = "running"
  /\ \E m \in ThemeModes : Message("THEME_MODE_SET", m)
THEME_FETCH ==
  /\ phase = "running"
  /\ Message("THEME_FETCH", 0)
THEME_DISABLE ==
  /\ phase = "running"
  /\ Message("THEME_DISABLE", 0)
PALETTE_COLOR_SET ==
  /\ phase = "running"
  /\ \E p \in PaletteColorInputs : Message("PALETTE_COLOR_SET", p)
OPTION_SET_FONT_SIZE ==
  /\ phase = "running"
  /\ \E d \in FontSizeOptionInputs : Message("OPTION_SET", d)
OPTION_SET_DUCKDUCKGO ==
  /\ phase = "running"
  /\ \E d \in DDGOptionInputs : Message("OPTION_SET", d)
OPTION_SET_CSS ==
  /\ phase = "running"
  /\ \E d \in CssOptionInputs : Message("OPTION_SET", d)

UPDATE_PAGE_MUTE ==
  /\ phase = "running"
  /\ Message("UPDATE_PAGE_MUTE", 0)

\* the daemon reports its version
VersionInputs ==
  {<<"2", ".", "6">>, <<"2", ".", "7", ".", "4">>, <<"2", ".", "1", "0">>,
   <<"3">>, <<"d", "e", "v">>}

ValidateVersion ==
  /\ phase = "running"
  /\ phase' = phase
  /\ \E v \in VersionInputs : Commit(validateVersion(World, v), "validateVersion", v)

\* the native app calls its updateNeeded callback
UpdateNeeded ==
  /\ phase = "running"
  /\ phase' = phase
  /\ Commit(updateNeeded(World), "updateNeeded", 0)

NativeAppConnected ==
  /\ phase = "running"
  /\ phase' = phase
  /\ Commit(nativeAppConnected(World), "nativeAppConnected", 0)

NativeAppDisconnected ==
  /\ phase = "running"
  /\ phase' = phase
  /\ Commit(nativeAppDisconnected(World), "nativeAppDisconnected", 0)

\* setCustomCSSEnabled called with any option name, a CSS target or not
SetCustomCSSEnabledCall ==
  /\ phase = "running"
  /\ phase' = phase
  /\ \E o \in CSSTargets \cup {"userStyle"}, e \in BOOLEAN :
       Commit(setCustomCSSEnabled(World, OptionData(o, e, UndefinedValue)),
              "setCustomCSSEnabled", OptionData(o, e, UndefinedValue))

\* the oldest suspended setThemeMode call goes on after its await
SetThemeModeResume ==
  /\ phase = "running"
  /\ suspended # <<>>
  /\ phase' = phase
  /\ Commit(setThemeMode_resume([World EXCEPT !.suspended = Tail(@)], Head(suspended)),
            "setThemeMode", Head(suspended))

\* the daemon answers the oldest request
Answer(type) ==
  /\ phase = "running"
  /\ pending # <<>>
  /\ Head(pending).type = type
  /\ phase' = phase

Answered == [World EXCEPT !.pending = Tail(@)]

ColorschemeReply ==
  /\ Answer("colorscheme")
  /\ \E c \in RawPalettes :
       Commit(onPywalColorsReceived(Answered, c), "onPywalColorsReceived", c)

\* the daemon sends the colours on its own (pywalfox.py update in a terminal)
ColorschemeUpdate ==
  /\ phase = "running"
  /\ phase' = phase
  /\ \E c \in RawPalettes :
       Commit(onPywalColorsReceived(World, c), "onPywalColorsReceived", c)

CssToggleSuccess ==
  /\ Answer("css")
  /\ Commit(cssToggleSuccess(Answered, Head(pending).target),
            "cssToggleSuccess", Head(pending))

CssToggleFailed ==
  /\ Answer("css")
  /\ Commit(cssToggleFailed(Answered, Head(pending).target),
            "cssToggleFailed", Head(pending))

CssFontSizeSetSuccess ==
  /\ Answer("font")
  /\ Commit(cssFontSizeSetSuccess(Answered, Head(pending).size),
            "cssFontSizeSetSuccess", Head(pending))

CssFontSizeSetFailed ==
  /\ Answer("font")
  /\ Commit(cssFontSizeSetFailed(Answered), "cssFontSizeSetFailed", Head(pending))

\* the theme pipeline: colours, templates, theme mode, DuckDuckGo
NextTheme ==
  \/ Start
  \/ Restart
  \/ DDG_THEME_GET
  \/ PALETTE_TEMPLATE_SET
  \/ THEME_MODE_SET
  \/ THEME_FETCH
  \/ THEME_DISABLE
  \/ PALETTE_COLOR_SET
  \/ OPTION_SET_DUCKDUCKGO
  \/ SetThemeModeResume
  \/ ColorschemeReply
  \/ ColorschemeUpdate

\* the two templates, with the handlers that give them colours to work on
NextTemplate ==
  \/ Start
  \/ Restart
  \/ PALETTE_TEMPLATE_SET
  \/ THEME_TEMPLATE_SET
  \/ THEME_MODE_SET
  \/ THEME_DISABLE
  \/ PALETTE_COLOR_SET
  \/ SetThemeModeResume
  \/ ColorschemeUpdate

\* the browser theme template while the DuckDuckGo option goes on and off
NextBrowserTemplate ==
  \/ Start
  \/ Restart
  \/ THEME_TEMPLATE_SET
  \/ THEME_MODE_SET
  \/ THEME_DISABLE
  \/ PALETTE_COLOR_SET
  \/ OPTION_SET_DUCKDUCKGO
  \/ SetThemeModeResume
  \/ ColorschemeUpdate

\* the custom CSS options: the CSS targets and the font size
NextCss ==
  \/ Start
  \/ Restart
  \/ OPTION_SET_FONT_SIZE
  \/ OPTION_SET_CSS
  \/ CssToggleSuccess
  \/ CssToggleFailed
  \/ CssFontSizeSetSuccess
  \/ CssFontSizeSetFailed

\* the custom CSS options, with setCustomCSSEnabled open to every option name
NextCssCall ==
  \/ NextCss
  \/ SetCustomCSSEnabledCall

\* the connection to the daemon: its version and the update page
NextVersion ==
  \/ Start
  \/ Restart
  \/ ValidateVersion
  \/ UpdateNeeded
  \/ UPDATE_PAGE_MUTE
  \/ NativeAppConnected
  \/ NativeAppDisconnected

\* A click on the settings page runs one listener of the page script.  The
\* listeners below send nothing to the background script.
PageStep(handler, arg) ==
  /\ last' = [handler |-> handler, arg |-> arg]
  /\ out' = <<>>
  /\ UNCHANGED <<state, browserTheme, pending, suspended, phase>>

OnColorClicked ==
  \E element \in colorButtons :
    /\ settingsPage' = onColorClicked(settingsPage, element)
    /\ PageStep("onColorClicked", element)

OnThemeClicked ==
  /\ settingsPage' = onThemeClicked(settingsPage)
  /\ PageStep("onThemeClicked", themeButton)

OnOverlayClicked ==
  /\ settingsPage' = onOverlayClicked(settingsPage)
  /\ PageStep("onOverlayClicked", "overlay")

OnSettingCardClick ==
  \E header \in settingCardHeaders :
    /\ settingsPage' = onSettingCardClick(settingsPage, header)
    /\ PageStep("onSettingCardClick", header)

NextPage ==
  \/ OnColorClicked
  \/ OnThemeClicked
  \/ OnOverlayClicked
  \/ OnSettingCardClick

\* the settings page is loaded with any markup of its cards: the open
\* attribute of a card is absent, empty or has a value; the last code that
\* ran is the page script itself
InitPage ==
  /\ state = InitialState
  /\ browserTheme = NoTheme
  /\ pending = <<>>
  /\ suspended = <<>>
  /\ phase = "loading"
  /\ out = <<>>
  /\ last = [handler |-> "settings", arg |-> NullElement]
  /\ settingsPage \in
       {LoadedPage(cards) :
          cards \in [Cards -> {NoAttribute, Attribute(""), Attribute("true")}]}

\* every handler of the extension and of the settings page
Next ==
  \/ NextTheme
  \/ NextTemplate
  \/ NextCss
  \/ NextVersion
  \/ NextPage

Spec == Init /\ [][Next]_vars
\* The theme handlers and the CSS handlers read and write different fields
\* of the State object, so each group is also explored on its own.
SpecTheme == Init /\ [][NextTheme]_vars
SpecTemplate == Init /\ [][NextTemplate]_vars
SpecBrowserTemplate == Init /\ [][NextBrowserTemplate]_vars
SpecCss == Init /\ [][NextCss]_vars
SpecCssCall == Init /\ [][NextCssCall]_vars
SpecVersion == Init /\ [][NextVersion]_vars
\* The settings page is a document of its own.
SpecPage == InitPage /\ [][NextPage]_vars

(***************************************************************************)
(* Properties.                                                              *)
(***************************************************************************)
Call(op, arg) == [op |-> op, arg |-> arg]
\* two lists of calls are the same calls in the same order
SameCalls(a, b) ==
  /\ Len(a) = Len(b)
  /\ \A i \in 1..Len(a) : a[i].op = b[i].op /\ a[i].arg = b[i].arg
\* the handler called op, with some argument
Called(calls, op) == \E i \in 1..Len(calls) : calls[i].op = op
\* the handler called op with argument arg
CalledWith(calls, op, arg) ==
  \E i \in 1..Len(calls) : calls[i].op = op /\ calls[i].arg = arg
\* the place of the first call of op in the list (0: none)
FirstCall(calls, op) ==
  IF Called(calls, op)
    THEN CHOOSE i \in 1..Len(calls) :
           calls[i].op = op /\ \A j \in 1..(i - 1) : calls[j].op # op
    ELSE 0
\* the template state.getTemplate() gives in State object st
TemplateOf(st) == getTemplate([state |-> st])

\* C1: start(), once the persisted state is loaded: with a stored colorscheme
\* it sets the browser theme to the colorscheme's browser theme, gives both
\* extension pages its extension theme and sets the applied flag, and only
\* then calls nativeApp.connect(); with no stored colorscheme it applies no
\* theme and calls connect() all the same.
C1_StartAppliesSavedThenConnects ==
  last.handler = "start" =>
    IF state.colorscheme # NullColorscheme
      THEN /\ SameCalls(out,
                <<Call("browser.theme.update", state.colorscheme.browser),
                  Call("settingsPage.setTheme", state.colorscheme.extension),
                  Call("updatePage.setTheme", state.colorscheme.extension),
                  Call("state.setApplied", TRUE),
                  Call("nativeApp.connect", 0)>>)
           /\ state.isApplied
           /\ browserTheme = [call |-> "update", colors |-> state.colorscheme.browser]
      ELSE /\ SameCalls(out, <<Call("nativeApp.connect", 0)>>)
           /\ browserTheme = NoTheme

C1_Witness ==
  /\ last.handler = "start"
  /\ state.colorscheme # NullColorscheme
  /\ FirstCall(out, "state.setApplied") = 4
  /\ FirstCall(out, "nativeApp.connect") = 5

\* C2: when the daemon delivers pywal colours, whatever the state before: the
\* colours are extended, a colorscheme is generated from them with the
\* template the state held, its browser theme goes to the browser and its
\* extension theme to both extension pages, and afterwards the state holds
\* the extended colours, that colorscheme and applied = true.
C2_PywalColorsApplied ==
  [][last'.handler = "onPywalColorsReceived" =>
       LET colors == extendPywalColors(last'.arg)
           colorscheme == generateColorscheme(colors, UndefinedCustomColors,
                                              TemplateOf(state))
       IN /\ CalledWith(out', "browser.theme.update", colorscheme.browser)
          /\ CalledWith(out', "settingsPage.setTheme", colorscheme.extension)
          /\ CalledWith(out', "updatePage.setTheme", colorscheme.extension)
          /\ browserTheme' = [call |-> "update", colors |-> colorscheme.browser]
          /\ state'.pywalColors = colors
          /\ state'.colorscheme = colorscheme
          /\ state'.isApplied = TRUE]_vars

\* colours arrive while another palette, custom colours and a palette template
\* of the user's are in place, in light mode
C2_Witness ==
  /\ last.handler = "onPywalColorsReceived"
  /\ state.mode = "light"
  /\ state.templates["light"].palette # DEFAULT_THEME_LIGHT.palette
  /\ state.pywalColors = extendPywalColors(last.arg)
  /\ state.colorscheme.browser # generateColorscheme(state.pywalColors,
         UndefinedCustomColors, DEFAULT_THEME_DARK).browser
  /\ state.isApplied

\* C3: a DDG.setTheme message is sent only while the DuckDuckGo option is
\* enabled in the state, or by the setDDGEnabled call that switches it on;
\* with the option disabled no other handler sends a DuckDuckGo theme, and
\* DDG_THEME_GET sends a DuckDuckGo reset.
IsSetDDGEnabled(l) ==
  l.handler = "OPTION_SET" /\ l.arg.option = EXTENSION_OPTIONS.DUCKDUCKGO

C3_DDGThemeOnlyWhenEnabled ==
  [][/\ Called(out', "DDG.setTheme") =>
          \/ state.duckduckgo /\ state'.duckduckgo
          \/ /\ IsSetDDGEnabled(last')
             /\ last'.arg.enabled
             /\ ~state.duckduckgo
             /\ state'.duckduckgo
     /\ (last'.handler = "DDG_THEME_GET" /\ ~state.duckduckgo) =>
          SameCalls(out', <<Call("DDG.resetTheme", 0)>>)]_vars

\* with a colorscheme stored and the option disabled, DDG_THEME_GET resets
C3_Witness ==
  /\ last.handler = "DDG_THEME_GET"
  /\ ~state.duckduckgo
  /\ state.colorscheme # NullColorscheme
  /\ Called(out, "DDG.resetTheme")
  /\ ~Called(out, "DDG.setTheme")

\* C4: THEME_DISABLE, from any state: the browser theme is reset, both
\* extension pages get a null theme, a DuckDuckGo reset is sent exactly when
\* the DuckDuckGo option is enabled, and afterwards pywal colours, colorscheme
\* and custom colours are null and applied is false; theme mode, templates and
\* option flags are as before.
C4_ThemeDisableResets ==
  [][last'.handler = "THEME_DISABLE" =>
       /\ SameCalls(out',
            <<Call("browser.theme.reset", NullBrowserTheme),
              Call("settingsPage.setTheme", NullTheme),
              Call("updatePage.setTheme", NullTheme)>>
            \o (IF state.duckduckgo THEN <<Call("DDG.resetTheme", 0)>> ELSE <<>>)
            \o <<Call("state.setColors",
                      [pywalColors |-> NullColors, colorscheme |-> NullColorscheme]),
                 Call("state.setCustomColors", NullCustomColors),
                 Call("state.setApplied", FALSE),
                 Call("UI.sendDebuggingOutput", "Theme was disabled")>>)
       /\ browserTheme' = [call |-> "reset", colors |-> NullBrowserTheme]
       /\ state' = [state EXCEPT !.pywalColors = NullColors,
                                 !.colorscheme = NullColorscheme,
                                 !.customColors = NullCustomColors,
                                 !.isApplied = FALSE]]_vars

\* a theme is disabled with DuckDuckGo on, in light mode with a palette
\* template of the user's, which stay
C4_Witness ==
  /\ last.handler = "THEME_DISABLE"
  /\ state.duckduckgo
  /\ Called(out, "DDG.resetTheme")
  /\ state.mode = "light"
  /\ state.templates["light"].palette # DEFAULT_THEME_LIGHT.palette
  /\ state.pywalColors = NullColors
  /\ ~state.isApplied

\* C5: THEME_FETCH only sends a colorscheme request to the native app: the
\* handler changes no state and applies no theme; the daemon's reply to the
\* request is handled by onPywalColorsReceived, and it is there that colours,
\* colorscheme and the applied flag change.
ColorschemeRequest ==
  [type |-> "colorscheme", target |-> "", enabled |-> FALSE, size |-> 0]

C5_ThemeFetchOnlyRequests ==
  [][/\ last'.handler = "THEME_FETCH" =>
          /\ SameCalls(out', <<Call("nativeApp.requestColorscheme", 0)>>)
          /\ pending' = Append(pending, ColorschemeRequest)
          /\ state' = state
          /\ browserTheme' = browserTheme
     /\ (phase = "running" /\ phase' = "running"
           /\ pending # <<>> /\ Head(pending) = ColorschemeRequest
           /\ pending' = Tail(pending)) =>
          /\ last'.handler = "onPywalColorsReceived"
          /\ state'.pywalColors = extendPywalColors(last'.arg)
          /\ state'.colorscheme # NullColorscheme
          /\ state'.isApplied]_vars

\* a fetch is requested while a theme is applied; nothing of it changes
C5_Witness ==
  /\ last.handler = "THEME_FETCH"
  /\ Called(out, "nativeApp.requestColorscheme")
  /\ Len(pending) = 2
  /\ state.isApplied
  /\ browserTheme.call = "update"

\* C6: when a CSS toggle succeeds, userChrome thereby becomes enabled and the
\* stored font size is not DEFAULT_CSS_FONT_SIZE, a font-size-set request for
\* the stored font size is sent to the native app.
C6_FontSizeReappliedOnEnable ==
  (/\ last.handler = "cssToggleSuccess"
   /\ last.arg.target = CSSTargets_UserChrome
   /\ state.cssEnabled[CSSTargets_UserChrome]
   /\ state.fontSize # DEFAULT_CSS_FONT_SIZE) =>
    CalledWith(out, "nativeApp.requestFontSizeSet",
               [target |-> CSSTargets_UserChrome, size |-> state.fontSize])

\* C7: setting the FONT_SIZE option sends a font-size-set request for
\* userChrome exactly when the value is defined and 10 <= value <= 20, and
\* otherwise only an error notification; the stored font size is not changed
\* by the request: it changes only in cssFontSizeSetSuccess, to the size that
\* was set, and cssFontSizeSetFailed leaves it as it was.
IsSetCssFontSize(l) ==
  l.handler = "OPTION_SET" /\ l.arg.option = EXTENSION_OPTIONS.FONT_SIZE

FontSizeRequest(size) ==
  [type |-> "font", target |-> CSSTargets_UserChrome, enabled |-> FALSE, size |-> size]

C7_FontSizeRequestAndStore ==
  [][/\ IsSetCssFontSize(last') =>
          /\ state' = state
          /\ IF last'.arg.value.defined /\ last'.arg.value.n \in 10..20
               THEN /\ SameCalls(out',
                         <<Call("nativeApp.requestFontSizeSet",
                                [target |-> CSSTargets_UserChrome,
                                 size |-> last'.arg.value.n])>>)
                    /\ pending' = Append(pending, FontSizeRequest(last'.arg.value.n))
               ELSE /\ SameCalls(out',
                         <<Call("UI.sendNotification",
                                [title |-> "Font size error", error |-> TRUE])>>)
                    /\ pending' = pending
     /\ state'.fontSize # state.fontSize =>
          /\ last'.handler = "cssFontSizeSetSuccess"
          /\ state'.fontSize = last'.arg.size
     /\ last'.handler = "cssFontSizeSetSuccess" => state'.fontSize = last'.arg.size
     /\ last'.handler = "cssFontSizeSetFailed" => state' = state]_vars

\* the smallest valid size is requested while another size is stored
C7_Witness ==
  /\ IsSetCssFontSize(last)
  /\ last.arg.value = Number(10)
  /\ Called(out, "nativeApp.requestFontSizeSet")
  /\ pending # <<>>
  /\ pending[Len(pending)] = FontSizeRequest(10)
  /\ state.fontSize = 20

\* C8: the stored enabled flag of a CSS target changes only in
\* cssToggleSuccess, which sets it to the negation of what it was and sends
\* the new value to the UI; the request (setCustomCSSEnabled) does not change
\* it; cssToggleFailed leaves it as it was and sends the stored value to the UI.
IsSetCustomCSSEnabled(l) ==
  l.handler = "OPTION_SET"
    /\ l.arg.option \in {EXTENSION_OPTIONS.USER_CHROME, EXTENSION_OPTIONS.USER_CONTENT}

C8_CssFlagChangesOnlyOnSuccess ==
  [][/\ state'.cssEnabled # state.cssEnabled => last'.handler = "cssToggleSuccess"
     /\ last'.handler = "cssToggleSuccess" =>
          LET target == last'.arg.target
          IN /\ state'.cssEnabled =
                  [state.cssEnabled EXCEPT ![target] = ~state.cssEnabled[target]]
             /\ CalledWith(out', "UI.sendOption",
                           [option |-> target, value |-> ~state.cssEnabled[target]])
     /\ IsSetCustomCSSEnabled(last') => state' = state
     /\ last'.handler = "cssToggleFailed" =>
          /\ state' = state
          /\ CalledWith(out', "UI.sendOption",
                        [option |-> last'.arg.target,
                         value |-> state.cssEnabled[last'.arg.target]])]_vars

\* a request to disable userContent has failed: it stays enabled
C8_Witness ==
  /\ last.handler = "cssToggleFailed"
  /\ last.arg.target = "userContent"
  /\ ~last.arg.enabled
  /\ state.cssEnabled["userContent"]
  /\ CalledWith(out, "UI.sendOption", [option |-> "userContent", value |-> TRUE])

\* C9: after each cssToggleSuccess the stored enabled flag of the target is
\* the enabled value of the request being answered.
C9_FlagIsRequestedValue ==
  last.handler = "cssToggleSuccess" =>
    state.cssEnabled[last.arg.target] = last.arg.enabled

\* C10: setCustomCSSEnabled with an option that is no CSSTargets value sends
\* no request to the native app, sends an error notification, sends the UI
\* the option with the value !enabled, and changes no state.
C10_InvalidCssTargetRejected ==
  [][(last'.handler = "setCustomCSSEnabled" /\ last'.arg.option \notin CSSTargets) =>
       /\ SameCalls(out',
            <<Call("UI.sendNotification", [title |-> "Custom CSS", error |-> TRUE]),
              Call("UI.sendOption",
                   [option |-> last'.arg.option, value |-> ~last'.arg.enabled])>>)
       /\ pending' = pending
       /\ state' = state
       /\ browserTheme' = browserTheme]_vars

\* enabling a target that does not exist is refused while a request waits
C10_Witness ==
  /\ last.handler = "setCustomCSSEnabled"
  /\ last.arg.option \notin CSSTargets
  /\ last.arg.enabled
  /\ CalledWith(out, "UI.sendOption", [option |-> last.arg.option, value |-> FALSE])
  /\ pending # <<>>

\* C11: receiving pywal colours from the daemon discards the custom colours:
\* after onPywalColorsReceived the stored custom colours are null, whatever
\* they were.  The other callers of updateThemes pass the stored custom
\* colours on: setThemeMode stores them back as they were; setPaletteColor
\* keeps every key it is not given; setPaletteTemplate keeps every key but
\* those it deletes for having the colour of the template (C13), and custom
\* colours that were an object stay an object.
C11_OnlyPywalColorsDiscardCustomColors ==
  [][/\ last'.handler = "onPywalColorsReceived" =>
          /\ CalledWith(out', "state.setCustomColors", NullCustomColors)
          /\ state'.customColors = NullCustomColors
     /\ (last'.handler = "setThemeMode" /\ state.pywalColors # NullColors) =>
          /\ CalledWith(out', "state.setCustomColors", state.customColors)
          /\ state'.customColors = state.customColors
     /\ (last'.handler = "PALETTE_COLOR_SET" /\ state.pywalColors # NullColors) =>
          /\ Truthy(state'.customColors)
          /\ \A t \in Targets :
               last'.arg.map[t] = 0 =>
                 state'.customColors.map[t] = state.customColors.map[t]
     /\ (last'.handler = "PALETTE_TEMPLATE_SET" /\ state.pywalColors # NullColors) =>
          /\ state'.customColors.kind = state.customColors.kind
          /\ \A t \in Targets :
               \/ state'.customColors.map[t] = state.customColors.map[t]
               \/ /\ state'.customColors.map[t] = 0
                  /\ state.customColors.map[t] =
                       state.pywalColors[TemplateOf(state').palette[t]]]_vars

\* a setThemeMode call has regenerated the themes in light mode and stored
\* the user's custom colours back
C11_Witness ==
  /\ last.handler = "setThemeMode"
  /\ last.arg = "light"
  /\ state.pywalColors # NullColors
  /\ Truthy(state.customColors)
  /\ \E t \in Targets : state.customColors.map[t] # 0
  /\ CalledWith(out, "state.setCustomColors", state.customColors)

\* C12: PALETTE_COLOR_SET (setPaletteColor).  With no pywal colours stored it
\* changes no state and applies no theme.  With pywal colours stored, the new
\* custom colours are the stored ones overridden key by key by the supplied
\* ones (the supplied ones alone when none were stored), and browser,
\* extension pages and colorscheme are regenerated from the stored pywal
\* colours and that merged set.
MergedCustomColors(stored, supplied) ==
  IF stored = NullCustomColors THEN supplied
  ELSE CustomColorsObject([t \in Targets |->
         IF supplied.map[t] # 0 THEN supplied.map[t] ELSE stored.map[t]])

C12_PaletteColorMerged ==
  [][last'.handler = "PALETTE_COLOR_SET" =>
       IF state.pywalColors = NullColors
         THEN /\ state' = state
              /\ browserTheme' = browserTheme
              /\ out' = <<>>
         ELSE LET merged == MergedCustomColors(state.customColors, last'.arg)
                  colorscheme == generateColorscheme(state.pywalColors, merged,
                                                     TemplateOf(state))
              IN /\ state' = [state EXCEPT !.customColors = merged,
                                           !.colorscheme = colorscheme,
                                           !.isApplied = TRUE]
                 /\ browserTheme' = [call |-> "update", colors |-> colorscheme.browser]
                 /\ CalledWith(out', "settingsPage.setTheme", colorscheme.extension)
                 /\ CalledWith(out', "updatePage.setTheme", colorscheme.extension)]_vars

\* a second colour is set: both keys are custom now, and the palette is theirs
C12_Witness ==
  /\ last.handler = "PALETTE_COLOR_SET"
  /\ state.pywalColors # NullColors
  /\ \A t \in Targets : state.customColors.map[t] # 0
  /\ \E t \in Targets : last.arg.map[t] = 0
  /\ state.colorscheme.palette = state.customColors.map

\* C13: setPaletteTemplate.  With pywal colours stored, afterwards no stored
\* custom colour of a target is the pywal colour the new palette template
\* maps the target to: such entries are deleted, the others are kept, and the
\* themes are regenerated from what is left.  With no pywal colours stored
\* the new palette template is stored all the same, no theme is regenerated
\* and the custom colours are untouched.
C13_PaletteTemplateDeletesTemplateColors ==
  [][last'.handler = "PALETTE_TEMPLATE_SET" =>
       LET template == TemplateOf(state').palette
       IN IF state.pywalColors # NullColors
            THEN /\ \A t \in Targets :
                      LET old == state.customColors.map[t]
                          new == state'.customColors.map[t]
                      IN /\ new = 0 \/ new # state'.pywalColors[template[t]]
                         /\ new = (IF old = state.pywalColors[template[t]] THEN 0 ELSE old)
                 /\ state'.pywalColors = state.pywalColors
                 /\ state'.colorscheme =
                      generateColorscheme(state.pywalColors, state'.customColors,
                                          TemplateOf(state'))
                 /\ CalledWith(out', "UI.sendCustomColors", state'.customColors)
            ELSE /\ CalledWith(out', "state.setPaletteTemplate", template)
                 /\ state' = [state EXCEPT
                                !.templates[getTemplateThemeMode([state |-> state])].palette
                                   = template]
                 /\ browserTheme' = browserTheme
                 /\ ~Called(out', "browser.theme.update")
                 /\ ~Called(out', "state.setCustomColors")]_vars

\* the template now gives every target the colour the user had chosen for
\* it: all custom colours are deleted and an object without keys is stored
C13_Witness ==
  /\ last.handler = "PALETTE_TEMPLATE_SET"
  /\ last.arg # NullPaletteTemplate
  /\ state.pywalColors # NullColors
  /\ state.customColors = CustomColorsObject(NoKeys)
  /\ CalledWith(out, "UI.sendCustomColors", CustomColorsObject(NoKeys))

\* C14: setPaletteTemplate(null) and setThemeTemplate(null) store the default
\* template of the stored theme mode: that of DEFAULT_THEME_DARK when the
\* mode is Dark, that of DEFAULT_THEME_LIGHT for Light and for Auto; a
\* template that is not null is stored as given.
DefaultOfMode(mode) ==
  IF mode = "dark" THEN DEFAULT_THEME_DARK ELSE DEFAULT_THEME_LIGHT

C14_NullTemplateIsDefaultOfMode ==
  [][/\ last'.handler = "PALETTE_TEMPLATE_SET" =>
          LET stored == IF last'.arg = NullPaletteTemplate
                          THEN DefaultOfMode(state.mode).palette ELSE last'.arg
          IN /\ CalledWith(out', "state.setPaletteTemplate", stored)
             /\ TemplateOf(state').palette = stored
     /\ last'.handler = "THEME_TEMPLATE_SET" =>
          LET stored == IF last'.arg = NullThemeTemplate
                          THEN DefaultOfMode(state.mode).browser ELSE last'.arg
          IN /\ CalledWith(out', "state.setThemeTemplate", stored)
             /\ TemplateOf(state').browser = stored]_vars

\* in Auto mode the theme template is reset: the light default is stored
C14_Witness ==
  /\ last.handler = "THEME_TEMPLATE_SET"
  /\ last.arg = NullThemeTemplate
  /\ state.mode = "auto"
  /\ TemplateOf(state).browser = DEFAULT_THEME_LIGHT.browser
  /\ TemplateOf(state).browser # DEFAULT_THEME_DARK.browser

\* C15: setThemeTemplate.  With a palette stored, a browser theme is
\* generated from the stored palette and the new template alone, applied to
\* the browser and stored in the colorscheme; with none stored, no browser
\* theme is applied or stored.  Either way the new theme template is stored;
\* pywal colours, custom colours, applied flag, palette template and the rest
\* of the colorscheme are as before, and no theme goes to the extension pages
\* or to DuckDuckGo.
C15_ThemeTemplateOnlyBrowserTheme ==
  [][last'.handler = "THEME_TEMPLATE_SET" =>
       LET updatedTemplate == IF last'.arg = NullThemeTemplate
                                THEN DefaultOfMode(state.mode).browser ELSE last'.arg
           templateMode == getTemplateThemeMode([state |-> state])
           browserTheme_ == generateBrowserTheme(state.colorscheme.palette,
                                                 updatedTemplate)
       IN /\ IF state.colorscheme # NullColorscheme
               THEN /\ CalledWith(out', "browser.theme.update", browserTheme_)
                    /\ CalledWith(out', "state.setBrowserTheme", browserTheme_)
                    /\ browserTheme' = [call |-> "update", colors |-> browserTheme_]
                    /\ state' = [state EXCEPT
                                   !.colorscheme.browser = browserTheme_,
                                   !.templates[templateMode].browser = updatedTemplate]
               ELSE /\ ~Called(out', "browser.theme.update")
                    /\ ~Called(out', "state.setBrowserTheme")
                    /\ browserTheme' = browserTheme
                    /\ state' = [state EXCEPT
                                   !.templates[templateMode].browser = updatedTemplate]
          /\ ~Called(out', "settingsPage.setTheme")
          /\ ~Called(out', "updatePage.setTheme")
          /\ ~Called(out', "DDG.setTheme")
          /\ ~Called(out', "DDG.resetTheme")]_vars

\* a theme template of the user's is set while a theme with custom colours
\* is applied and the DuckDuckGo theme is on: the browser theme is another
\* than the default template gives
C15_Witness ==
  /\ last.handler = "THEME_TEMPLATE_SET"
  /\ last.arg # NullThemeTemplate
  /\ state.colorscheme # NullColorscheme
  /\ state.duckduckgo
  /\ Truthy(state.customColors)
  /\ state.colorscheme.browser =
       generateBrowserTheme(state.colorscheme.palette, last.arg)
  /\ state.colorscheme.browser #
       generateBrowserTheme(state.colorscheme.palette,
                            DefaultOfMode(state.mode).browser)
  /\ browserTheme = [call |-> "update", colors |-> state.colorscheme.browser]

\* C16: setThemeMode(mode) has the mode written to the State before it reads
\* the template.  The call writes the mode and nothing else; what follows
\* the await reads the template of the State as it then is, which for a call
\* that is the only one in flight is the template of its mode.  It
\* regenerates the themes with that template, the stored pywal colours and
\* the stored custom colours, and only if pywal colours are stored; with
\* none stored nothing but the mode has changed and no theme is applied.
\* The template mode is sent to the UI only when mode is Auto.
TemplateModeOf(mode, isDay) ==
  IF mode = "auto" THEN (IF isDay THEN "light" ELSE "dark") ELSE mode

C17_ThemeDisableNotUndoneByResume ==
  [][/\ (last.handler = "THEME_DISABLE" /\ suspended # <<>>
           /\ last'.handler = "setThemeMode") =>
          /\ state'.pywalColors = NullColors
          /\ state'.colorscheme = NullColorscheme
          /\ state'.customColors = NullCustomColors
          /\ ~state'.isApplied
          /\ state' = state
          /\ browserTheme' = [call |-> "reset", colors |-> NullBrowserTheme]
          /\ ~Called(out', "browser.theme.update")
          /\ ~Called(out', "settingsPage.setTheme")
          /\ ~Called(out', "updatePage.setTheme")
          /\ ~Called(out', "state.setColors")
          /\ ~Called(out', "state.setApplied")
     /\ (last'.handler = "setThemeMode" /\ state.pywalColors = NullColors) =>
          /\ state' = state
          /\ browserTheme' = browserTheme]_vars

\* the theme is disabled while a setThemeMode("light") call, which has
\* written its mode, waits at its await
C17_Witness ==
  /\ last.handler = "THEME_DISABLE"
  /\ suspended = <<"light">>
  /\ state.mode = "light"
  /\ state.pywalColors = NullColors
  /\ state.colorscheme = NullColorscheme
  /\ ~state.isApplied
  /\ browserTheme.call = "reset"
  /\ ENABLED SetThemeModeResume

\* C18: setDDGEnabled sends a DuckDuckGo message only on a transition: the
\* DuckDuckGo theme of the stored colorscheme when the option goes from
\* disabled to enabled and a colorscheme is stored, a DuckDuckGo reset when
\* it goes from enabled to disabled, nothing when the requested value is the
\* stored one.  Afterwards the stored flag is the requested value, and the
\* same request made again sends no DuckDuckGo message and changes nothing.
C18_DDGMessageOnlyOnTransition ==
  [][IsSetDDGEnabled(last') =>
       LET enabled == last'.arg.enabled
           again == setDDGEnabled([state |-> state', browserTheme |-> browserTheme',
                                   pending |-> pending', suspended |-> suspended',
                                   out |-> <<>>], last'.arg)
       IN /\ Called(out', "DDG.setTheme") <=>
               (enabled /\ ~state.duckduckgo /\ state.colorscheme # NullColorscheme)
          /\ Called(out', "DDG.setTheme") =>
               CalledWith(out', "DDG.setTheme",
                          [hash |-> state.colorscheme.hash,
                           theme |-> state.colorscheme.duckduckgo])
          /\ Called(out', "DDG.resetTheme") <=> (~enabled /\ state.duckduckgo)
          /\ CalledWith(out', "UI.sendOption",
                        [option |-> EXTENSION_OPTIONS.DUCKDUCKGO, value |-> enabled])
          /\ state' = [state EXCEPT !.duckduckgo = enabled]
          /\ browserTheme' = browserTheme
          /\ again.state = state'
          /\ ~Called(again.out, "DDG.setTheme")
          /\ ~Called(again.out, "DDG.resetTheme")]_vars

\* the option is enabled again while it is enabled and a colorscheme is
\* stored: no DuckDuckGo message is sent
C18_Witness ==
  /\ IsSetDDGEnabled(last)
  /\ last.arg.enabled
  /\ state.duckduckgo
  /\ state.colorscheme # NullColorscheme
  /\ ~Called(out, "DDG.setTheme")
  /\ ~Called(out, "DDG.resetTheme")
  /\ Called(out, "state.setDDGThemeEnabled")

\* C19: validateVersion always stores the parsed daemon version.  It calls
\* updateNeeded exactly when the parsed version is below
\* MIN_REQUIRED_DAEMON_VERSION, and updateNeeded opens the update page if and
\* only if update notifications are not muted.  UPDATE_PAGE_MUTE sets muted
\* and closes the update page, and once muted is set it stays set and no
\* version or updateNeeded event opens the update page.
UpdateNeededRan(calls) ==
  Called(calls, "updatePage.open") \/ Called(calls, "console.log")

C19_UpdatePageOnlyWhileNotMuted ==
  [][/\ last'.handler = "validateVersion" =>
          LET versionNumber == parseFloat(last'.arg)
          IN /\ CalledWith(out', "state.setVersion", versionNumber)
             /\ state' = [state EXCEPT !.version = versionNumber]
             /\ UpdateNeededRan(out') <=>
                  LessThan(versionNumber, MIN_REQUIRED_DAEMON_VERSION)
             /\ Called(out', "updatePage.open") <=>
                  (LessThan(versionNumber, MIN_REQUIRED_DAEMON_VERSION)
                     /\ ~state.updateMuted)
     /\ last'.handler = "updateNeeded" =>
          /\ Called(out', "updatePage.open") <=> ~state.updateMuted
          /\ state' = state
     /\ last'.handler = "UPDATE_PAGE_MUTE" =>
          /\ SameCalls(out', <<Call("state.setUpdateMuted", TRUE),
                               Call("updatePage.close", 0)>>)
          /\ state' = [state EXCEPT !.updateMuted = TRUE]
     /\ state.updateMuted =>
          /\ state'.updateMuted
          /\ ~Called(out', "updatePage.open")]_vars

\* the daemon reports version "2.10" after the user has muted the update
\* page: 2.1 is stored, it is below 2.7, and the update page is not opened
C19_Witness ==
  /\ last.handler = "validateVersion"
  /\ last.arg = <<"2", ".", "1", "0">>
  /\ state.version = Float(21, 1)
  /\ LessThan(state.version, MIN_REQUIRED_DAEMON_VERSION)
  /\ state.updateMuted
  /\ Called(out, "console.log")
  /\ ~Called(out, "updatePage.open")

\* C20: once start() has run, after every completed handler the applied
\* flag is true exactly when a colorscheme is stored, and pywal colours are
\* stored whenever custom colours are.
C20_AppliedIffColorscheme ==
  phase = "running" =>
    /\ state.isApplied <=> state.colorscheme # NullColorscheme
    /\ state.customColors # NullCustomColors => state.pywalColors # NullColors

\* the browser was restarted with a theme and custom colours stored, and
\* start() has applied the saved colorscheme
C20_Witness ==
  /\ phase = "running"
  /\ last.handler = "start"
  /\ state.isApplied
  /\ state.colorscheme # NullColorscheme
  /\ Truthy(state.customColors)
  /\ state.pywalColors # NullColors
  /\ Called(out, "state.setApplied")

\* C21: once start() has run, after every completed handler the theme last
\* pushed to the browser agrees with the State: if a colorscheme is stored,
\* the last browser.theme call was an update with exactly the browser theme
\* of the stored colorscheme; if none is stored, the last browser.theme
\* call, if there was one, was a reset (so it was a reset whenever a theme
\* had been applied).
C21_BrowserThemeAgreesWithState ==
  phase = "running" =>
    IF state.colorscheme # NullColorscheme
      THEN browserTheme = [call |-> "update", colors |-> state.colorscheme.browser]
      ELSE browserTheme \in {NoTheme, [call |-> "reset", colors |-> NullBrowserTheme]}

\* a theme template of the user's was set in light mode after the palette
\* template had been changed: the browser holds the theme the State holds,
\* which is not the theme the colorscheme was generated with
C21_Witness ==
  /\ phase = "running"
  /\ last.handler = "THEME_TEMPLATE_SET"
  /\ last.arg # NullThemeTemplate
  /\ state.mode = "light"
  /\ state.templates["light"].palette # DEFAULT_THEME_LIGHT.palette
  /\ state.colorscheme # NullColorscheme
  /\ browserTheme = [call |-> "update", colors |-> state.colorscheme.browser]
  /\ browserTheme.colors #
       generateBrowserTheme(state.colorscheme.palette, DEFAULT_THEME_LIGHT.browser)

(***************************************************************************)
(* The dialogs of the settings page.                                       *)
(***************************************************************************)
\* the dialog a click handler opens, and the element it opens it from
OpenedDialog(l) == IF l.handler = "onColorClicked" THEN colorpicker ELSE themepicker

\* at most one dialog is open, the open one is currentDialog, and the
\* overlay is open exactly when there is a current dialog
DialogsAgree(p) ==
  /\ \A d \in Dialogs : p.dialogs[d].open <=> p.currentDialog = d
  /\ p.overlay <=> p.currentDialog # NullDialog

\* C22: after every openDialog or closeDialog call at most one dialog is
\* open, the open one is currentDialog, and the overlay is open exactly when
\* currentDialog is non-null.  closeDialog leaves no current dialog.  Opening
\* the dialog that is current closes it, except the colorpicker opened from
\* another target, which stays open with the new target; opening another
\* dialog closes the current one and makes the opened one current.
C22_DialogsToggleOneAtATime ==
  [][/\ last'.handler \in {"onColorClicked", "onThemeClicked", "onOverlayClicked"}
       => DialogsAgree(settingsPage')
     /\ last'.handler = "onOverlayClicked"
       => settingsPage'.currentDialog = NullDialog
     /\ last'.handler \in {"onColorClicked", "onThemeClicked"}
       => LET dialog == OpenedDialog(last')
              target == last'.arg
              retargeted == /\ dialog = colorpicker
                            /\ settingsPage.dialogs[dialog].target # target
          IN IF settingsPage.currentDialog = dialog /\ ~retargeted
               THEN /\ settingsPage'.currentDialog = NullDialog
                    /\ ~settingsPage'.dialogs[dialog].open
               ELSE /\ settingsPage'.currentDialog = dialog
                    /\ settingsPage'.dialogs[dialog] = [open |-> TRUE, target |-> target]
                    /\ \A d \in Dialogs \ {dialog} : ~settingsPage'.dialogs[d].open
    ]_vars

\* the colorpicker has just been opened from a colour button while the
\* themepicker, opened earlier from the theme button, is closed again
C22_Witness ==
  /\ last.handler = "onColorClicked"
  /\ settingsPage.currentDialog = colorpicker
  /\ settingsPage.dialogs[colorpicker] = [open |-> TRUE, target |-> last.arg]
  /\ settingsPage.dialogs[themepicker] = [open |-> FALSE, target |-> themeButton]
  /\ settingsPage.overlay

(***************************************************************************)
(* The setting cards.                                                      *)
(***************************************************************************)
\* a card is open when its open attribute is present with the empty value:
\* the test onSettingCardClick itself makes
CardIsOpen(p, card) == p.cards[card] = Attribute("")

\* C23: a click on a setting-card header changes the open attribute of its
\* parent card only: the attribute is removed when it was present with the
\* empty value and set to the empty value otherwise.  No other card and
\* nothing else on the page changes.  A second click on the same header
\* restores the card's open/closed state and leaves every other card as it
\* was; it restores the attribute itself when that was absent or empty.
C23_CardClickTogglesOpenAttribute ==
  [][last'.handler = "onSettingCardClick"
       => LET header == last'.arg
              card == parentNode[header]
              twice == onSettingCardClick(settingsPage', header)
          IN /\ settingsPage'.cards[card] =
                  IF settingsPage.cards[card] = Attribute("")
                    THEN NoAttribute
                    ELSE Attribute("")
             /\ CardIsOpen(settingsPage', card) = ~CardIsOpen(settingsPage, card)
             /\ \A c \in Cards \ {card} : settingsPage'.cards[c] = settingsPage.cards[c]
             /\ [settingsPage' EXCEPT !.cards = settingsPage.cards] = settingsPage
             /\ CardIsOpen(twice, card) = CardIsOpen(settingsPage, card)
             /\ \A c \in Cards \ {card} : twice.cards[c] = settingsPage.cards[c]
             /\ settingsPage.cards[card] \in {NoAttribute, Attribute("")}
                  => twice = settingsPage
    ]_vars

\* a click has closed an open card while the other card is open and a
\* dialog is open
C23_Witness ==
  /\ last.handler = "onSettingCardClick"
  /\ settingsPage.cards[parentNode[last.arg]] = NoAttribute
  /\ \E c \in Cards \ {parentNode[last.arg]} : CardIsOpen(settingsPage, c)
  /\ settingsPage.currentDialog # NullDialog

====
